---------------------------- MODULE Spec2Model ----------------------------
(***************************************************************************)
(* A model of the Proxima league bot (src/main.py): the four SQLite        *)
(* tables, the two TTL caches, the Discord role assignments the bot        *)
(* mutates, the pending transfer offers (TransferView objects) and the     *)
(* command / button handlers that are in flight.                           *)
(*                                                                         *)
(* Every handler is an asyncio coroutine; the event loop may switch to     *)
(* another handler at each `await` that really suspends.  A handler is     *)
(* therefore modelled as a task with a program counter, one action per     *)
(* stretch of code between two suspending awaits that touches shared       *)
(* state.  Role reads through `interaction.user.roles` / `player.roles`    *)
(* see the snapshot delivered with the interaction, so a task captures     *)
(* them when it starts; `role.members` and `guild.get_member` read the     *)
(* current assignment.                                                     *)
(*                                                                         *)
(* A table is the set of its rows; the PRIMARY KEY of each table is        *)
(* enforced by the statements that write it, as SQLite does.               *)
(***************************************************************************)
EXTENDS Integers, Sequences, FiniteSets, TLC

\* ------------------------------------------------------------------ bounds
NumUsers == 3
NumTeams == 3
MaxTasks == 2
MaxOffers == 2
MaxCmds == 3
MaxCmdsSeq == 4
MaxCmdsAdmin == 3
InitDemandLimit == 1
InitRosterLimit == 2
MaxCmdsCache == 2
TickStep == 30
MaxNow == 90
MaxCmdsGuilds == 3
MaxCmdsStaff == 2
MaxCmdsOwner == 3
MaxCmdsHelp == 5

\* ------------------------------------------------------- program constants
CACHE_TTL == 60

Users == 1..NumUsers
TeamRoles == 1..NumTeams
TheGuild == "g1"
Guilds == {TheGuild, "g2"}

\* Role ids handed to /setup_global.  Team roles are 1..NumTeams; a member's
\* role list is ordered by role position, modelled as the order of the ids.
MgrRole == NumTeams + 1
AsstRole == NumTeams + 2
FaRole == NumTeams + 3
ChannelId == NumTeams + 4

\* The values the string and integer arguments of the commands are drawn from.
\* A second guild, "g2", shares the database: OtherTeam is the role id of its
\* one registered team (its manager, assistant, channel and free-agent ids
\* are the four ids after it), and Visitor is the discord.Member of user 1
\* there.  member.id and interaction.guild.id of a member:
OtherTeam == NumTeams + 5
Visitor == NumUsers + 1
UserId(m) == IF m = Visitor THEN 1 ELSE m
GuildOf(m) == IF m = Visitor THEN "g2" ELSE TheGuild

Logos == {"logoA", "logoB"}
RosterLimits == {InitRosterLimit, InitRosterLimit + 1}
Regions == {"ASIA", "EU"}
Positions == {"ST", "GK"}
Descriptions == {"d1", "d2"}
DemandLimits == {InitDemandLimit, InitDemandLimit + 1}
Urls == {"reset", "http://bg", "ftp://bg", ""}

VARIABLES
    roles,          \* Discord: user -> set of role ids held in the guild
    global_config,  \* table global_config
    teams,          \* table teams
    free_agents,    \* table free_agents
    player_stats,   \* table player_stats
    config_cache,   \* dict config_cache: guild -> entry or NoEntry
    team_cache,     \* dict team_cache: team role id -> entry or NoEntry
    now,            \* time.time(), in seconds since start
    offers,         \* the TransferView objects delivered so far
    reset_views,    \* the ResetView messages whose buttons are showing
    tasks,          \* handler invocations in flight
    reply,          \* what the step just taken sent to its invoker
    cmds,           \* the number of invocations received so far
    last_setup,     \* team role id -> the arguments of the /setup_team that
                    \* registered the role last (NoRow: unregistered since)
    last_listing,   \* user -> the arguments of the member's last
                    \* /looking_for_team and how many the member has made
    card,           \* the render of _generate_card_sync under way or last
                    \* finished, and the servers it talks to
    shut,           \* a /window Closed has completed and no /window Open
                    \* has been run since
    demanded,       \* member -> the number of update_stat(id, "demand") made
                    \* by the member's /demand invocations
    help_views      \* member -> the HelpView of the member's /help message
                    \* and the buttons that message shows

vars == <<roles, global_config, teams, free_agents, player_stats,
          config_cache, team_cache, now, offers, reset_views, tasks, reply,
          cmds, last_setup, last_listing, card, shut, demanded, help_views>>

\* ------------------------------------------------------------------ tables

NoRow == [present |-> FALSE]

\* cursor.fetchone() of SELECT * FROM tbl WHERE key = v: a row, or None.
Select(tbl, key, v) ==
    IF \E r \in tbl : r[key] = v
    THEN CHOOSE r \in tbl : r[key] = v
    ELSE NoRow

\* INSERT OR REPLACE: the rows with the new row's key are deleted first.
InsertOrReplace(tbl, key, row) ==
    {r \in tbl : r[key] # row[key]} \cup {row}

\* DELETE FROM tbl WHERE key = v
Delete(tbl, key, v) == {r \in tbl : r[key] # v}

ConfigRow(gid, mgr, asst, chan, fa, win, lim) ==
    [guild_id |-> gid, manager_role_id |-> mgr, asst_role_id |-> asst,
     contract_channel_id |-> chan, free_agent_role_id |-> fa,
     window_open |-> win, demand_limit |-> lim]

TeamRow(rid, logo, limit, img) ==
    [team_role_id |-> rid, logo |-> logo, roster_limit |-> limit,
     transaction_image |-> img]

AgentRow(uid, region, position, description, ts) ==
    [user_id |-> uid, region |-> region, position |-> position,
     description |-> description, timestamp |-> ts]

StatsRow(uid, tr, dm) == [user_id |-> uid, transfers |-> tr, demands |-> dm]

ConfigOf(gid) == Select(global_config, "guild_id", gid)
TeamOf(rid) == Select(teams, "team_role_id", rid)
AgentOf(uid) == Select(free_agents, "user_id", uid)
StatsOf(uid) == Select(player_stats, "user_id", uid)

\* ------------------------------------------------------------------ caches

NoEntry == [present |-> FALSE]

Entry(data, ts) == [present |-> TRUE, data |-> data, timestamp |-> ts]

\* An entry aged exactly CACHE_TTL counted as still fresh.
CacheHitLate(cache, k) ==
    cache[k].present /\ now - cache[k].timestamp <= CACHE_TTL

\* get_global_config / get_team_data, the test on the first line: the entry
\* exists and is younger than CACHE_TTL.
CacheHit(cache, k) ==
    cache[k].present /\ now - cache[k].timestamp < CACHE_TTL

\* get_global_config when it does not suspend between the database read and
\* the store: the value returned, and the cache afterwards.
GetGlobalConfig(cache, gid) ==
    IF CacheHit(cache, gid) THEN cache[gid].data ELSE ConfigOf(gid)

ConfigCacheAfterGet(cache, gid) ==
    IF CacheHit(cache, gid) THEN cache
    ELSE [cache EXCEPT ![gid] = Entry(ConfigOf(gid), now)]

\* get_team_data, likewise.
GetTeamData(cache, r) ==
    IF CacheHit(cache, r) THEN cache[r].data ELSE TeamOf(r)

TeamCacheAfterGet(cache, r) ==
    IF CacheHit(cache, r) THEN cache
    ELSE [cache EXCEPT ![r] = Entry(TeamOf(r), now)]

\* find_user_team: the member's roles in order, the first one with a teams
\* row (0 when there is none).  Only team role ids are looked up here: the
\* other role ids have no teams row in any state of this model.
TeamHits(cache, rs) ==
    {r \in rs \cap DOMAIN cache : GetTeamData(cache, r) # NoRow}

FindUserTeam(cache, rs) ==
    IF TeamHits(cache, rs) = {} THEN 0
    ELSE CHOOSE r \in TeamHits(cache, rs) :
             \A q \in TeamHits(cache, rs) : r <= q

\* The team cache after find_user_team: every role looked up before the loop
\* returned has been loaded.
TeamCacheAfterFind(cache, rs) ==
    LET found == FindUserTeam(cache, rs)
        looked == {r \in rs \cap DOMAIN cache : found = 0 \/ r <= found}
    IN [r \in DOMAIN cache |->
          IF r \in looked /\ ~CacheHit(cache, r)
          THEN Entry(TeamOf(r), now) ELSE cache[r]]

\* role.members
Members(r) == {u \in Users : r \in roles[u]}

\* is_window_open on the value get_global_config returned.
IsWindowOpen(cfg) == IF cfg # NoRow THEN cfg.window_open = 1 ELSE TRUE

\* ------------------------------------------------------------------- tasks

NoRead == [pending |-> FALSE]
NoReply == [op |-> "none", kind |-> "none"]
Idle == [op |-> "idle"]
NoArgs == [status |-> 1, role |-> 0, logo |-> "", limit |-> 0,
           mgr |-> 0, asst |-> 0, url |-> "",
           region |-> "", position |-> "", description |-> ""]

\* A handler invocation.  cRoles / pRoles are the role snapshots of the
\* invoking member and of the `player` argument; args are the other
\* arguments; rd is a database read of global_config that has been made but
\* not yet stored in the cache; team is the invoker's team role; from is the
\* targeted player's team and rcpt the manager chosen by /transfer; limit
\* and used are demand_limit and demands_used; img is the transaction_image
\* /setup_team read, window_state the flag /setup_global read.  Two fields
\* record the past: gated, that the guild's window flag has been 0 in the
\* database ever since the invocation arrived; before, the player's
\* transfer count when it arrived.
Task(op, pc, c, p, o) ==
    [op |-> op, pc |-> pc, caller |-> c, player |-> p, offer |-> o,
     cRoles |-> IF c \in DOMAIN roles THEN roles[c] ELSE {},
     pRoles |-> IF p \in Users THEN roles[p] ELSE {},
     args |-> NoArgs, rd |-> NoRead, team |-> 0, from |-> 0, rcpt |-> 0,
     limit |-> 0, used |-> 0, img |-> "", window_state |-> 1,
     gated |-> (ConfigOf(TheGuild) # NoRow
                /\ ConfigOf(TheGuild).window_open = 0),
     before |-> IF p \in Users /\ StatsOf(p) # NoRow
                THEN StatsOf(p).transfers ELSE 0]

\* -------------------------------------------------------------------- Init

\* The guild as the bot finds it when it starts: configured by an earlier
\* /setup_global, every team role registered, member 1 the head manager of
\* team 1, member 2 an assistant manager on team 2, member 3 a player of
\* team 3, any further member on no team; in the second guild, user 1 a
\* player of its team, and a demand limit one above the first guild's.
InitRoles(u) ==
    IF u = Visitor THEN {OtherTeam}
    ELSE IF u = 1 THEN {1, MgrRole}
    ELSE IF u = 2 THEN {2, AsstRole}
    ELSE IF u = 3 THEN {3}
    ELSE {}

Init ==
    /\ roles = [u \in Users \cup {Visitor} |-> InitRoles(u)]
    /\ global_config =
         {ConfigRow(TheGuild, MgrRole, AsstRole, ChannelId, FaRole, 1,
                    InitDemandLimit),
          ConfigRow("g2", OtherTeam + 1, OtherTeam + 2, OtherTeam + 3,
                    OtherTeam + 4, 1, InitDemandLimit + 1)}
    /\ teams = {TeamRow(r, "logoA", InitRosterLimit, "") :
                   r \in TeamRoles \cup {OtherTeam}}
    /\ free_agents = {}
    /\ player_stats = {}
    /\ config_cache = [gid \in Guilds |-> NoEntry]
    /\ team_cache = [r \in TeamRoles \cup {OtherTeam} |-> NoEntry]
    /\ now = 0
    /\ offers = <<>>
    /\ reset_views = 0
    /\ tasks = [i \in 1..MaxTasks |-> Idle]
    /\ reply = NoReply
    /\ cmds = 0
    /\ last_setup = [r \in TeamRoles |->
                       [logo |-> "logoA", roster_limit |-> InitRosterLimit]]
    /\ last_listing = [u \in Users |-> NoRow]
    /\ card = [pc |-> "idle"]
    /\ shut = FALSE
    /\ demanded = [u \in Users \cup {Visitor} |-> 0]
    /\ help_views = [u \in Users |-> [sent |-> FALSE]]

\* ------------------------------------------------------------- task frame

g == TheGuild

InFlight == Cardinality({i \in 1..MaxTasks : tasks[i] # Idle})

FreeSlot == CHOOSE i \in 1..MaxTasks :
                tasks[i] = Idle /\ \A j \in 1..(i - 1) : tasks[j] # Idle

\* s.cap is the number of invocations the specification lets overlap, s.max
\* the number of invocations it follows.
Room(s) == InFlight < s.cap /\ cmds < s.max

\* A new invocation is dispatched as its own asyncio task.
Start(s, task) ==
    /\ Room(s)
    /\ cmds' = cmds + 1
    /\ tasks' = [tasks EXCEPT ![FreeSlot] = task]
    /\ reply' = NoReply

\* An invocation that is answered before its handler first suspends.
Answer(s, op, kind) ==
    /\ Room(s)
    /\ cmds' = cmds + 1
    /\ reply' = [op |-> op, kind |-> kind]
    /\ UNCHANGED tasks

\* The handler returns (or dies): kind is the message it sent last, "crash"
\* when an exception left the handler with no message to the invoker.
Finish(i, kind) ==
    /\ tasks' = [tasks EXCEPT ![i] = Idle]
    /\ reply' = [op |-> tasks[i].op, kind |-> kind]
    /\ UNCHANGED cmds

\* The handler goes on, as the task t.
Continue(i, t) ==
    /\ tasks' = [tasks EXCEPT ![i] = t]
    /\ reply' = NoReply
    /\ UNCHANGED cmds

Goto(i, pc) == Continue(i, [tasks[i] EXCEPT !.pc = pc])

At(i, op, pc) == tasks[i].op = op /\ tasks[i].pc = pc

UNCH_DB == UNCHANGED <<global_config, teams, free_agents, player_stats>>
UNCH_CACHE == UNCHANGED <<config_cache, team_cache>>
UNCH_ENV ==
    UNCHANGED <<now, reset_views, last_setup, last_listing, card, shut,
                demanded, help_views>>

\* --------------------------------------------------- the window gate read

GateOps == {"sign", "release", "transfer", "accept"}

\* is_window_open -> get_global_config on a cache miss: the SELECT has
\* returned; the cache is written when the coroutine resumes.
GateFetch(i) ==
    /\ tasks[i].op \in GateOps /\ tasks[i].pc = "gate"
    /\ ~tasks[i].rd.pending
    /\ ~CacheHit(config_cache, g)
    /\ Continue(i, [tasks[i] EXCEPT !.rd =
                      [pending |-> TRUE, data |-> ConfigOf(g), at |-> now]])
    /\ UNCHANGED <<roles, offers>>
    /\ UNCH_DB /\ UNCH_CACHE /\ UNCH_ENV

GateReady(i) == tasks[i].rd.pending \/ CacheHit(config_cache, g)

GateCfg(i) ==
    IF tasks[i].rd.pending THEN tasks[i].rd.data ELSE config_cache[g].data

GateCache(i) ==
    IF tasks[i].rd.pending
    THEN [config_cache EXCEPT ![g] = Entry(tasks[i].rd.data, tasks[i].rd.at)]
    ELSE config_cache

\* ------------------------------------------------------------------- sign

SignStart(s, c, p) ==
    /\ Start(s, Task("sign", "gate", c, p, 0))
    /\ UNCHANGED <<roles, offers>>
    /\ UNCH_DB /\ UNCH_CACHE /\ UNCH_ENV

\* Lines 662-680: the checks made before the role is added.  g_config[1]
\* raises when the guild has no configuration row.
SignOutcome(t, cfg, tc) ==
    IF ~IsWindowOpen(cfg) THEN "closed"
    ELSE IF cfg = NoRow THEN "crash"
    ELSE IF cfg.manager_role_id \notin t.cRoles
            /\ cfg.asst_role_id \notin t.cRoles THEN "unauth"
    ELSE LET team == FindUserTeam(tc, t.cRoles)
             tc2 == TeamCacheAfterFind(tc, t.cRoles)
         IN IF team = 0 THEN "noteam"
            ELSE IF team \in t.pRoles THEN "already"
            ELSE IF FindUserTeam(tc2, t.pRoles) # 0 THEN "other"
            ELSE IF Cardinality(Members(team))
                      >= GetTeamData(tc, team).roster_limit THEN "full"
            ELSE "ok"

SignTeamCache(t, out, tc) ==
    IF out \in {"closed", "crash", "unauth"} THEN tc
    ELSE IF out \in {"noteam", "already"}
         THEN TeamCacheAfterFind(tc, t.cRoles)
    ELSE TeamCacheAfterFind(TeamCacheAfterFind(tc, t.cRoles), t.pRoles)

SignGate(i) ==
    /\ At(i, "sign", "gate") /\ GateReady(i)
    /\ LET t == tasks[i]
           out == SignOutcome(t, GateCfg(i), team_cache)
       IN /\ config_cache' = GateCache(i)
          /\ team_cache' = SignTeamCache(t, out, team_cache)
          /\ IF out = "ok"
             THEN Continue(i, [t EXCEPT !.pc = "add", !.rd = NoRead,
                                 !.team = FindUserTeam(team_cache, t.cRoles)])
             ELSE Finish(i, out)
    /\ UNCHANGED <<roles, offers>>
    /\ UNCH_DB /\ UNCH_ENV

\* Line 682: player.add_roles(team_role); Discord may refuse it.
SignAdd(i) ==
    /\ At(i, "sign", "add")
    /\ \/ /\ roles' = [roles EXCEPT ![tasks[i].player] = @ \cup {tasks[i].team}]
          /\ Goto(i, "cleanup_db")
       \/ /\ UNCHANGED roles
          /\ Finish(i, "crash")
    /\ UNCHANGED offers
    /\ UNCH_DB /\ UNCH_CACHE /\ UNCH_ENV

\* ----------------------------------------------------- cleanup_free_agent

\* Lines 196-198: DELETE FROM free_agents.
CleanupDb(i) ==
    /\ tasks[i].op \in {"sign", "accept"} /\ tasks[i].pc = "cleanup_db"
    /\ free_agents' = Delete(free_agents, "user_id", tasks[i].player)
    /\ Goto(i, "cleanup_role")
    /\ UNCHANGED <<roles, offers, global_config, teams, player_stats>>
    /\ UNCH_CACHE /\ UNCH_ENV

\* The roles cleanup_free_agent sees on `member`: the `player` argument of
\* /sign (a snapshot), guild.get_member(...) in Accept (the current roles).
CleanupSeen(t) == IF t.op = "sign" THEN t.pRoles ELSE roles[t.player]

\* Lines 199-206: the free-agent role is removed when the member is seen to
\* hold it; an exception of remove_roles is swallowed.
CleanupRole(i) ==
    /\ tasks[i].op \in {"sign", "accept"} /\ tasks[i].pc = "cleanup_role"
    /\ LET cfg == GetGlobalConfig(config_cache, g)
           fa == IF cfg # NoRow THEN cfg.free_agent_role_id ELSE 0
       IN /\ config_cache' = ConfigCacheAfterGet(config_cache, g)
          /\ IF fa # 0 /\ fa \in CleanupSeen(tasks[i])
             THEN \/ roles' = [roles EXCEPT ![tasks[i].player] = @ \ {fa}]
                  \/ UNCHANGED roles
             ELSE UNCHANGED roles
    /\ Goto(i, "stat_sel")
    /\ UNCHANGED <<offers, team_cache>>
    /\ UNCH_DB /\ UNCH_ENV

\* ------------------------------------------- get_player_stats / update_stat

StatOps == {"sign", "accept", "demand"}

\* The member whose row the handler touches and the column it increments.
StatUser(t) == UserId(IF t.op = "demand" THEN t.caller ELSE t.player)
StatType(t) == IF t.op = "demand" THEN "demand" ELSE "transfer"

\* update_stat -> get_player_stats, line 136: SELECT * FROM player_stats.
StatSelect(i) ==
    /\ tasks[i].op \in StatOps /\ tasks[i].pc = "stat_sel"
    /\ Goto(i, IF StatsOf(StatUser(tasks[i])) # NoRow
               THEN "stat_upd" ELSE "stat_ins")
    /\ UNCHANGED <<roles, offers>>
    /\ UNCH_DB /\ UNCH_CACHE /\ UNCH_ENV

\* A row created with counts already on it.
StatInsertRowUsed(uid) == StatsRow(uid, 1, 1)

\* Line 139: the row get_player_stats inserts.
StatInsertRow(uid) == StatsRow(uid, 0, 0)

\* Lines 139-140: INSERT INTO player_stats.  user_id is the primary key: the
\* INSERT raises when another invocation has inserted the row meanwhile.
\* Accept catches the exception (line 381); /sign and /demand do not.
StatInsert(i) ==
    /\ tasks[i].op \in StatOps /\ tasks[i].pc = "stat_ins"
    /\ IF StatsOf(StatUser(tasks[i])) # NoRow
       THEN /\ UNCHANGED player_stats
            /\ IF tasks[i].op = "accept"
               THEN Goto(i, "error") ELSE Finish(i, "crash")
       ELSE /\ player_stats' =
                  player_stats \cup {StatInsertRow(StatUser(tasks[i]))}
            /\ Goto(i, "stat_upd")
    /\ UNCHANGED <<roles, offers, global_config, teams, free_agents>>
    /\ UNCH_CACHE /\ UNCH_ENV

\* An increment by two.
StatBumpTwice(row, type) ==
    IF type = "transfer"
    THEN [row EXCEPT !.transfers = @ + 2]
    ELSE [row EXCEPT !.demands = @ + 2]

\* Lines 147-150: SET <column> = <column> + amount, amount = 1.
StatBump(row, type) ==
    IF type = "transfer"
    THEN [row EXCEPT !.transfers = @ + 1]
    ELSE [row EXCEPT !.demands = @ + 1]

\* Lines 147-151: UPDATE player_stats ... WHERE user_id = ?; commit.
\* offers[o].bumps counts the increments made on behalf of offer o,
\* demanded[m] those made by member m's /demand invocations.
StatUpdate(i) ==
    /\ tasks[i].op \in StatOps /\ tasks[i].pc = "stat_upd"
    /\ player_stats' =
         {IF r.user_id = StatUser(tasks[i])
          THEN StatBump(r, StatType(tasks[i])) ELSE r : r \in player_stats}
    /\ offers' = IF tasks[i].op = "accept"
                 THEN [offers EXCEPT ![tasks[i].offer].bumps = @ + 1]
                 ELSE offers
    /\ demanded' = IF tasks[i].op = "demand"
                   THEN [demanded EXCEPT ![tasks[i].caller] = @ + 1]
                   ELSE demanded
    /\ Goto(i, IF tasks[i].op = "demand" THEN "fa_add" ELSE "announce")
    /\ UNCHANGED <<roles, global_config, teams, free_agents, now, reset_views,
                   last_setup, last_listing, card, shut, help_views>>
    /\ UNCH_CACHE

\* ----------------------------------------------------- send_to_channel

\* Lines 314-321: the channel the notice goes to (0: none configured).
ChannelOf(cfg) == IF cfg # NoRow THEN cfg.contract_channel_id ELSE 0

\* Lines 686-701: the notice, the DM to the player, "Player Signed!".
SignAnnounce(i) ==
    /\ At(i, "sign", "announce")
    /\ config_cache' = ConfigCacheAfterGet(config_cache, g)
    /\ Finish(i, "signed")
    /\ UNCHANGED <<roles, offers, team_cache>>
    /\ UNCH_DB /\ UNCH_ENV

\* ---------------------------------------------------------------- release

ReleaseStart(s, c, p) ==
    /\ Start(s, Task("release", "gate", c, p, 0))
    /\ UNCHANGED <<roles, offers>>
    /\ UNCH_DB /\ UNCH_CACHE /\ UNCH_ENV

\* Lines 707-716.
ReleaseOutcome(t, cfg, tc) ==
    IF ~IsWindowOpen(cfg) THEN "closed"
    ELSE IF FindUserTeam(tc, t.cRoles) = 0 THEN "noteam"
    ELSE IF FindUserTeam(tc, t.cRoles) \notin t.pRoles THEN "not_on_team"
    ELSE "ok"

ReleaseGate(i) ==
    /\ At(i, "release", "gate") /\ GateReady(i)
    /\ LET t == tasks[i]
           out == ReleaseOutcome(t, GateCfg(i), team_cache)
       IN /\ config_cache' = GateCache(i)
          /\ team_cache' = IF out = "closed" THEN team_cache
                           ELSE TeamCacheAfterFind(team_cache, t.cRoles)
          /\ IF out = "ok"
             THEN Continue(i, [t EXCEPT !.pc = "remove", !.rd = NoRead,
                                 !.team = FindUserTeam(team_cache, t.cRoles)])
             ELSE Finish(i, out)
    /\ UNCHANGED <<roles, offers>>
    /\ UNCH_DB /\ UNCH_ENV

\* Line 718: player.remove_roles(team_role); Discord may refuse it.
ReleaseRemove(i) ==
    /\ At(i, "release", "remove")
    /\ \/ /\ roles' = [roles EXCEPT ![tasks[i].player] = @ \ {tasks[i].team}]
          /\ Goto(i, "announce")
       \/ /\ UNCHANGED roles
          /\ Finish(i, "crash")
    /\ UNCHANGED offers
    /\ UNCH_DB /\ UNCH_CACHE /\ UNCH_ENV

\* Lines 720-734: the notice, the DM to the player, "Released!".
ReleaseAnnounce(i) ==
    /\ At(i, "release", "announce")
    /\ config_cache' = ConfigCacheAfterGet(config_cache, g)
    /\ Finish(i, "released")
    /\ UNCHANGED <<roles, offers, team_cache>>
    /\ UNCH_DB /\ UNCH_ENV

\* ----------------------------------------------------------------- demand

DemandStart(s, c) ==
    /\ Start(s, Task("demand", "team", c, 0, 0))
    /\ UNCHANGED <<roles, offers>>
    /\ UNCH_DB /\ UNCH_CACHE /\ UNCH_ENV

\* Line 746: g_conf[6], 3 when the guild has no row.
DemandLimitOf(cfg) == IF cfg # NoRow THEN cfg.demand_limit ELSE 3

\* Lines 740-746: the invoker's team, the guild's demand limit.
DemandTeam(i) ==
    /\ At(i, "demand", "team")
    /\ LET t == tasks[i]
           team == FindUserTeam(team_cache, t.cRoles)
       IN /\ team_cache' = TeamCacheAfterFind(team_cache, t.cRoles)
          /\ IF team = 0
             THEN /\ Finish(i, "noteam")
                  /\ UNCHANGED config_cache
             ELSE /\ config_cache' =
                       ConfigCacheAfterGet(config_cache, GuildOf(t.caller))
                  /\ Continue(i, [t EXCEPT !.pc = "dstat_sel", !.team = team,
                        !.limit =
                            DemandLimitOf(GetGlobalConfig(config_cache,
                                              GuildOf(t.caller)))])
    /\ UNCHANGED <<roles, offers>>
    /\ UNCH_DB /\ UNCH_ENV

\* Line 750: the demand is refused when demands_used >= demand_limit.
DemandRefused(used, limit) == used >= limit

\* Lines 747-751 with the row present: get_player_stats returns it.
DemandStatSelect(i) ==
    /\ At(i, "demand", "dstat_sel")
    /\ LET row == StatsOf(UserId(tasks[i].caller))
       IN IF row = NoRow THEN Goto(i, "dstat_ins")
          ELSE IF DemandRefused(row.demands, tasks[i].limit)
               THEN Finish(i, "limit_reached")
          ELSE Continue(i, [tasks[i] EXCEPT !.pc = "remove",
                                            !.used = row.demands])
    /\ UNCHANGED <<roles, offers>>
    /\ UNCH_DB /\ UNCH_CACHE /\ UNCH_ENV

\* Lines 138-141, 748-751: the row is created, get_player_stats returns
\* (user_id, 0, 0).
DemandStatInsert(i) ==
    /\ At(i, "demand", "dstat_ins")
    /\ LET row == StatInsertRow(UserId(tasks[i].caller))
       IN IF StatsOf(UserId(tasks[i].caller)) # NoRow
          THEN /\ UNCHANGED player_stats
               /\ Finish(i, "crash")
          ELSE /\ player_stats' = player_stats \cup {row}
               /\ IF DemandRefused(row.demands, tasks[i].limit)
                  THEN Finish(i, "limit_reached")
                  ELSE Continue(i, [tasks[i] EXCEPT !.pc = "remove",
                                                    !.used = row.demands])
    /\ UNCHANGED <<roles, offers, global_config, teams, free_agents>>
    /\ UNCH_CACHE /\ UNCH_ENV

\* Line 753: interaction.user.remove_roles(team_role).
DemandRemove(i) ==
    /\ At(i, "demand", "remove")
    /\ \/ /\ roles' = [roles EXCEPT ![tasks[i].caller] = @ \ {tasks[i].team}]
          /\ Goto(i, "stat_sel")
       \/ /\ UNCHANGED roles
          /\ Finish(i, "crash")
    /\ UNCHANGED offers
    /\ UNCH_DB /\ UNCH_CACHE /\ UNCH_ENV

\* Lines 755-773: the free-agent role is added, the notice and the DMs to the
\* team's managers are sent, the invoker is told how many demands remain.
DemandFaAdd(i) ==
    /\ At(i, "demand", "fa_add")
    /\ LET gid == GuildOf(tasks[i].caller)
           cfg == GetGlobalConfig(config_cache, gid)
           fa == IF cfg # NoRow THEN cfg.free_agent_role_id ELSE 0
       IN /\ config_cache' = ConfigCacheAfterGet(config_cache, gid)
          /\ roles' = IF fa # 0
                      THEN [roles EXCEPT ![tasks[i].caller] = @ \cup {fa}]
                      ELSE roles
    /\ Finish(i, "left")
    /\ UNCHANGED <<offers, team_cache>>
    /\ UNCH_DB /\ UNCH_ENV

\* --------------------------------------------------------------- transfer

TransferStart(s, c, p) ==
    /\ Len(offers) < MaxOffers
    /\ Start(s, Task("transfer", "gate", c, p, 0))
    /\ UNCHANGED <<roles, offers>>
    /\ UNCH_DB /\ UNCH_CACHE /\ UNCH_ENV

\* get_managers_of_team: the members of the team holding the manager role,
\* and those holding the assistant role but not the manager role.
HeadManagers(cfg, team) ==
    IF cfg = NoRow THEN {}
    ELSE {m \in Members(team) : cfg.manager_role_id \in roles[m]}

Assistants(cfg, team) ==
    IF cfg = NoRow THEN {}
    ELSE {m \in Members(team) : cfg.manager_role_id \notin roles[m]
                                   /\ cfg.asst_role_id \in roles[m]}

\* The assistants preferred to the head managers.
AssistantsFirst(cfg, team) ==
    IF Assistants(cfg, team) # {} THEN Assistants(cfg, team)
    ELSE HeadManagers(cfg, team)

\* Line 947: heads[0] if heads else (assts[0] if assts else None).  The order
\* of role.members is the guild's member order, which the bot does not
\* control: any head manager may come first.
TargetManagers(cfg, team) ==
    IF HeadManagers(cfg, team) # {} THEN HeadManagers(cfg, team)
    ELSE Assistants(cfg, team)

\* Lines 930-949.
TransferOutcome(t, cfg, tc) ==
    IF ~IsWindowOpen(cfg) THEN "closed"
    ELSE LET mine == FindUserTeam(tc, t.cRoles)
             tc2 == TeamCacheAfterFind(tc, t.cRoles)
             theirs == FindUserTeam(tc2, t.pRoles)
         IN IF mine = 0 THEN "noteam"
            ELSE IF theirs = 0 THEN "player_noteam"
            ELSE IF mine = theirs THEN "same"
            ELSE IF TargetManagers(cfg, theirs) = {} THEN "no_manager"
            ELSE "ok"

TransferGate(i) ==
    /\ At(i, "transfer", "gate") /\ GateReady(i)
    /\ LET t == tasks[i]
           cfg == GateCfg(i)
           out == TransferOutcome(t, cfg, team_cache)
           mine == FindUserTeam(team_cache, t.cRoles)
           tc2 == TeamCacheAfterFind(team_cache, t.cRoles)
           theirs == FindUserTeam(tc2, t.pRoles)
       IN /\ config_cache' = GateCache(i)
          /\ team_cache' = IF out = "closed" THEN team_cache
                           ELSE IF out = "noteam" THEN tc2
                           ELSE TeamCacheAfterFind(tc2, t.pRoles)
          /\ IF out = "ok"
             THEN \E m \in TargetManagers(cfg, theirs) :
                     Continue(i, [t EXCEPT !.pc = "dm", !.rd = NoRead,
                                    !.team = mine, !.from = theirs, !.rcpt = m])
             ELSE Finish(i, out)
    /\ UNCHANGED <<roles, offers>>
    /\ UNCH_DB /\ UNCH_ENV

\* Line 951: TransferView(guild, player, target_team_role, my_team_role,
\* interaction.user, my_logo), as delivered to rcpt.  disabled: stop() was
\* called on the view; told: the outcome the handler sent to the proposer;
\* adds / bumps / posted: how many times an Accept of this offer added the
\* destination role, incremented the transfer counter, posted the public
\* notice.
NewOffer(t) ==
    [player |-> t.player, from_team |-> t.from, to_team |-> t.team,
     to_manager |-> t.caller, rcpt |-> t.rcpt, disabled |-> FALSE,
     told |-> "none", adds |-> 0, bumps |-> 0, posted |-> 0]

\* Lines 955-958: send_dm delivers the view, or fails (DMs closed).
TransferDm(i) ==
    /\ At(i, "transfer", "dm")
    /\ \/ /\ offers' = Append(offers, NewOffer(tasks[i]))
          /\ Finish(i, "offer_sent")
       \/ /\ UNCHANGED offers
          /\ Finish(i, "dm_failed")
    /\ UNCHANGED roles
    /\ UNCH_DB /\ UNCH_CACHE /\ UNCH_ENV

\* ------------------------------------------------- TransferView.accept

\* A click is dispatched to the view until stop() has been called.
Clickable(o) == o \in 1..Len(offers) /\ ~offers[o].disabled

AcceptStart(s, o) ==
    /\ Clickable(o)
    /\ Start(s, Task("accept", "gate", offers[o].rcpt, offers[o].player, o))
    /\ UNCHANGED <<roles, offers>>
    /\ UNCH_DB /\ UNCH_CACHE /\ UNCH_ENV

\* Lines 344-347.
AcceptGate(i) ==
    /\ At(i, "accept", "gate") /\ GateReady(i)
    /\ config_cache' = GateCache(i)
    /\ IF IsWindowOpen(GateCfg(i))
       THEN Continue(i, [tasks[i] EXCEPT !.pc = "remove", !.rd = NoRead])
       ELSE Finish(i, "closed")
    /\ UNCHANGED <<roles, offers, team_cache>>
    /\ UNCH_DB /\ UNCH_ENV

\* Line 354: member.remove_roles(self.from_team); an exception goes to the
\* handler at line 381.
AcceptRemove(i) ==
    /\ At(i, "accept", "remove")
    /\ \/ /\ roles' = [roles EXCEPT ![tasks[i].player] =
                          @ \ {offers[tasks[i].offer].from_team}]
          /\ Goto(i, "add")
       \/ /\ UNCHANGED roles
          /\ Goto(i, "error")
    /\ UNCHANGED offers
    /\ UNCH_DB /\ UNCH_CACHE /\ UNCH_ENV

\* Line 355: member.add_roles(self.to_team).
AcceptAdd(i) ==
    /\ At(i, "accept", "add")
    /\ \/ /\ roles' = [roles EXCEPT ![tasks[i].player] =
                          @ \cup {offers[tasks[i].offer].to_team}]
          /\ offers' = [offers EXCEPT ![tasks[i].offer].adds = @ + 1]
          /\ Goto(i, "cleanup_db")
       \/ /\ UNCHANGED <<roles, offers>>
          /\ Goto(i, "error")
    /\ UNCH_DB /\ UNCH_CACHE /\ UNCH_ENV

\* Lines 359-373: the destination team's row, the card, the public notice;
\* channel.send may raise.
AcceptAnnounce(i) ==
    /\ At(i, "accept", "announce")
    /\ LET o == tasks[i].offer
           cfg == GetGlobalConfig(config_cache, g)
       IN /\ team_cache' = TeamCacheAfterGet(team_cache, offers[o].to_team)
          /\ config_cache' = ConfigCacheAfterGet(config_cache, g)
          /\ \/ /\ offers' = IF ChannelOf(cfg) # 0
                             THEN [offers EXCEPT ![o].posted = @ + 1]
                             ELSE offers
                /\ Goto(i, "finish")
             \/ /\ ChannelOf(cfg) # 0
                /\ UNCHANGED offers
                /\ Goto(i, "error")
    /\ UNCHANGED roles
    /\ UNCH_DB /\ UNCH_ENV

\* Lines 374-379: the proposer is told, stop(), every button disabled, the
\* message edited; message.edit may raise, after the view was stopped.
AcceptFinish(i) ==
    /\ At(i, "accept", "finish")
    /\ offers' = [offers EXCEPT ![tasks[i].offer].disabled = TRUE,
                                ![tasks[i].offer].told = "accepted"]
    /\ \/ Finish(i, "approved")
       \/ Finish(i, "error")
    /\ UNCHANGED roles
    /\ UNCH_DB /\ UNCH_CACHE /\ UNCH_ENV

\* Lines 381-382: the error reply; the view is left as it was.
AcceptError(i) ==
    /\ At(i, "accept", "error")
    /\ Finish(i, "error")
    /\ UNCHANGED <<roles, offers>>
    /\ UNCH_DB /\ UNCH_CACHE /\ UNCH_ENV

\* ------------------------------------------------ TransferView.decline

DeclineStart(s, o) ==
    /\ Clickable(o)
    /\ Start(s, Task("decline", "notify", offers[o].rcpt, offers[o].player, o))
    /\ UNCHANGED <<roles, offers>>
    /\ UNCH_DB /\ UNCH_CACHE /\ UNCH_ENV

\* A Decline that takes the player off the source team.
DeclineReleases(i) ==
    /\ At(i, "decline", "notify")
    /\ offers' = [offers EXCEPT ![tasks[i].offer].disabled = TRUE,
                                ![tasks[i].offer].told = "declined"]
    /\ roles' = [roles EXCEPT ![tasks[i].player] =
                    @ \ {offers[tasks[i].offer].from_team}]
    /\ Finish(i, "declined")
    /\ UNCH_DB /\ UNCH_CACHE /\ UNCH_ENV

\* Lines 386-391: the proposer is told, stop(), every button disabled, the
\* message edited.
DeclineFinish(i) ==
    /\ At(i, "decline", "notify")
    /\ offers' = [offers EXCEPT ![tasks[i].offer].disabled = TRUE,
                                ![tasks[i].offer].told = "declined"]
    /\ Finish(i, "declined")
    /\ UNCHANGED roles
    /\ UNCH_DB /\ UNCH_CACHE /\ UNCH_ENV

\* ----------------------------------------------------------------- window

\* is_staff: member 0 is the guild's administrator.
IsStaff(c) == c = 0

\* The window flag is no longer known to have been 0 all along.
Ungate(ts) ==
    [j \in 1..MaxTasks |->
       IF ts[j] # Idle THEN [ts[j] EXCEPT !.gated = FALSE] ELSE ts[j]]

WindowStart(s, c, status) ==
    /\ IF IsStaff(c)
       THEN Start(s, [Task("window", "commit", c, 0, 0)
                           EXCEPT !.args.status = status])
       ELSE Answer(s, "window", "admin_only")
    /\ shut' = IF IsStaff(c) /\ status = 1 THEN FALSE ELSE shut
    /\ UNCHANGED <<roles, offers, now, reset_views, last_setup, last_listing,
                   card, demanded, help_views>>
    /\ UNCH_DB /\ UNCH_CACHE

\* Lines 597-600: UPDATE global_config SET window_open = ? ; commit.
WindowCommit(i) ==
    /\ At(i, "window", "commit")
    /\ global_config' =
         {IF r.guild_id = g
          THEN [r EXCEPT !.window_open = tasks[i].args.status] ELSE r :
            r \in global_config}
    /\ LET ts == [tasks EXCEPT ![i].pc = "invalidate"]
       IN tasks' = IF tasks[i].args.status # 0 THEN Ungate(ts) ELSE ts
    /\ reply' = NoReply
    /\ UNCHANGED <<roles, offers, cmds, teams, free_agents, player_stats>>
    /\ UNCH_CACHE /\ UNCH_ENV

\* Lines 601-604: invalidate_config, then the message to the invoker.
WindowInvalidate(i) ==
    /\ At(i, "window", "invalidate")
    /\ config_cache' = [config_cache EXCEPT ![g] = NoEntry]
    /\ tasks' = [tasks EXCEPT ![i].pc = "announce"]
    /\ reply' = [op |-> "window", kind |-> "window_set"]
    /\ UNCHANGED <<roles, offers, cmds, team_cache>>
    /\ UNCH_DB /\ UNCH_ENV

\* Lines 606-610: the configuration is read again, the message is repeated
\* in the announcement channel.
WindowAnnounce(i) ==
    /\ At(i, "window", "announce")
    /\ config_cache' = ConfigCacheAfterGet(config_cache, g)
    /\ Finish(i, "window_posted")
    /\ shut' = IF tasks[i].args.status = 0 THEN TRUE ELSE shut
    /\ UNCHANGED <<roles, offers, team_cache, now, reset_views, last_setup,
                   last_listing, card, demanded, help_views>>
    /\ UNCH_DB

\* ------------------------------------------------------------- setup_team

\* Lines 562-566: the staff check; the handler then defers.
SetupTeamStart(s, c, r, logo, limit) ==
    /\ IF IsStaff(c)
       THEN Start(s, [Task("setup_team", "existing", c, 0, 0)
                        EXCEPT !.args.role = r, !.args.logo = logo,
                               !.args.limit = limit])
       ELSE Answer(s, "setup_team", "admin_only")
    /\ UNCHANGED <<roles, offers>>
    /\ UNCH_DB /\ UNCH_CACHE /\ UNCH_ENV

\* Lines 567-568: existing = get_team_data(...); trans_img = existing[3].
SetupTeamExisting(i) ==
    /\ At(i, "setup_team", "existing")
    /\ LET r == tasks[i].args.role
           existing == GetTeamData(team_cache, r)
       IN /\ team_cache' = TeamCacheAfterGet(team_cache, r)
          /\ Continue(i, [tasks[i] EXCEPT !.pc = "commit",
                 !.img = IF existing # NoRow
                         THEN existing.transaction_image ELSE ""])
    /\ UNCHANGED <<roles, offers, config_cache>>
    /\ UNCH_DB /\ UNCH_ENV

\* Line 571: the row /setup_team writes.
SetupTeamRow(t) == TeamRow(t.args.role, t.args.logo, t.args.limit, t.img)

\* A plain INSERT that no key constraint stops.
SetupTeamAppend(tbl, t) == tbl \cup {SetupTeamRow(t)}

\* Lines 570-573: INSERT OR REPLACE INTO teams; commit.
SetupTeamWrite(tbl, t) == InsertOrReplace(tbl, "team_role_id", SetupTeamRow(t))

SetupTeamCommit(i) ==
    /\ At(i, "setup_team", "commit")
    /\ teams' = SetupTeamWrite(teams, tasks[i])
    /\ last_setup' = [last_setup EXCEPT ![tasks[i].args.role] =
                        [logo |-> tasks[i].args.logo,
                         roster_limit |-> tasks[i].args.limit]]
    /\ Goto(i, "invalidate")
    /\ UNCHANGED <<roles, offers, global_config, free_agents, player_stats,
                   now, reset_views, last_listing, card, shut, demanded, help_views>>
    /\ UNCH_CACHE

\* Lines 574-575: invalidate_team, "registered!".
SetupTeamInvalidate(i) ==
    /\ At(i, "setup_team", "invalidate")
    /\ team_cache' = [team_cache EXCEPT ![tasks[i].args.role] = NoEntry]
    /\ Finish(i, "registered")
    /\ UNCHANGED <<roles, offers, config_cache>>
    /\ UNCH_DB /\ UNCH_ENV

\* ------------------------------------------------------------ team_delete

TeamDeleteStart(s, c, r) ==
    /\ IF IsStaff(c)
       THEN Start(s, [Task("team_delete", "commit", c, 0, 0)
                        EXCEPT !.args.role = r])
       ELSE Answer(s, "team_delete", "admin_only")
    /\ UNCHANGED <<roles, offers>>
    /\ UNCH_DB /\ UNCH_CACHE /\ UNCH_ENV

\* Lines 583-585: DELETE FROM teams WHERE team_role_id = ?; commit.
TeamDeleteCommit(i) ==
    /\ At(i, "team_delete", "commit")
    /\ teams' = Delete(teams, "team_role_id", tasks[i].args.role)
    /\ last_setup' = [last_setup EXCEPT ![tasks[i].args.role] = NoRow]
    /\ Goto(i, "invalidate")
    /\ UNCHANGED <<roles, offers, global_config, free_agents, player_stats,
                   now, reset_views, last_listing, card, shut, demanded, help_views>>
    /\ UNCH_CACHE

\* Lines 586-587: invalidate_team, "removed.".
TeamDeleteInvalidate(i) ==
    /\ At(i, "team_delete", "invalidate")
    /\ team_cache' = [team_cache EXCEPT ![tasks[i].args.role] = NoEntry]
    /\ Finish(i, "removed")
    /\ UNCHANGED <<roles, offers, config_cache>>
    /\ UNCH_DB /\ UNCH_ENV

\* ----------------------------------------------- reset_config / ResetView

\* Lines 524-532: the staff check, then the confirmation prompt.
ResetStart(s, c) ==
    /\ IF IsStaff(c)
       THEN /\ Answer(s, "reset_config", "prompt")
            /\ reset_views' = reset_views + 1
       ELSE /\ Answer(s, "reset_config", "admin_only")
            /\ UNCHANGED reset_views
    /\ UNCHANGED <<roles, offers, now, last_setup, last_listing, card, shut,
                   demanded, help_views>>
    /\ UNCH_DB /\ UNCH_CACHE

\* ResetView.cancel, line 434: the prompt is replaced, its buttons removed.
ResetCancel(s) ==
    /\ reset_views > 0
    /\ Answer(s, "reset_cancel", "cancelled")
    /\ reset_views' = reset_views - 1
    /\ UNCHANGED <<roles, offers, now, last_setup, last_listing, card, shut,
                   demanded, help_views>>
    /\ UNCH_DB /\ UNCH_CACHE

\* ResetView.confirm, line 423: the click is deferred.
ResetConfirmStart(s) ==
    /\ reset_views > 0
    /\ Start(s, Task("reset_confirm", "commit", 0, 0, 0))
    /\ UNCHANGED <<roles, offers>>
    /\ UNCH_DB /\ UNCH_CACHE /\ UNCH_ENV

\* The confirmed wipe as DELETE FROM global_config with no WHERE clause.
ResetCommitAll(i) ==
    /\ At(i, "reset_confirm", "commit")
    /\ global_config' = {}
    /\ tasks' = Ungate([tasks EXCEPT ![i].pc = "invalidate"])
    /\ reply' = NoReply
    /\ UNCHANGED <<roles, offers, cmds, teams, free_agents, player_stats>>
    /\ UNCH_CACHE /\ UNCH_ENV

\* Lines 424-426: DELETE FROM global_config WHERE guild_id = ?; commit.
ResetCommit(i) ==
    /\ At(i, "reset_confirm", "commit")
    /\ global_config' = Delete(global_config, "guild_id", g)
    /\ tasks' = Ungate([tasks EXCEPT ![i].pc = "invalidate"])
    /\ reply' = NoReply
    /\ UNCHANGED <<roles, offers, cmds, teams, free_agents, player_stats>>
    /\ UNCH_CACHE /\ UNCH_ENV

\* Lines 427-430: invalidate_config, "Configuration Wiped.", the prompt is
\* edited and its buttons removed.
ResetInvalidate(i) ==
    /\ At(i, "reset_confirm", "invalidate")
    /\ config_cache' = [config_cache EXCEPT ![g] = NoEntry]
    /\ reset_views' = IF reset_views > 0 THEN reset_views - 1 ELSE 0
    /\ Finish(i, "wiped")
    /\ UNCHANGED <<roles, offers, team_cache, now, last_setup, last_listing,
                   card, shut, demanded, help_views>>
    /\ UNCH_DB

\* -------------------------------------------------------- looking_for_team

LookingStart(s, c, region, position, description) ==
    /\ Start(s, [Task("looking_for_team", "commit", c, 0, 0)
                   EXCEPT !.args.region = region, !.args.position = position,
                          !.args.description = description])
    /\ UNCHANGED <<roles, offers>>
    /\ UNCH_DB /\ UNCH_CACHE /\ UNCH_ENV

\* Lines 839-840: the row /looking_for_team writes.
LookingRow(t) ==
    AgentRow(t.caller, t.args.region, t.args.position, t.args.description, now)

\* INSERT OR IGNORE: an existing listing is kept.
LookingKeep(tbl, t) ==
    IF \E r \in tbl : r.user_id = t.caller THEN tbl
    ELSE tbl \cup {LookingRow(t)}

\* Lines 838-841: INSERT OR REPLACE INTO free_agents; commit.
LookingWrite(tbl, t) == InsertOrReplace(tbl, "user_id", LookingRow(t))

LookingCommit(i) ==
    /\ At(i, "looking_for_team", "commit")
    /\ free_agents' = LookingWrite(free_agents, tasks[i])
    /\ last_listing' = [last_listing EXCEPT ![tasks[i].caller] =
                          [region |-> tasks[i].args.region,
                           position |-> tasks[i].args.position,
                           description |-> tasks[i].args.description,
                           count |-> IF @ = NoRow THEN 1 ELSE @.count + 1]]
    /\ Goto(i, "role")
    /\ UNCHANGED <<roles, offers, global_config, teams, player_stats,
                   now, reset_views, last_setup, card, shut, demanded, help_views>>
    /\ UNCH_CACHE

\* Lines 843-848: the free-agent role is added when one is configured;
\* add_roles may raise, and then no message is sent.
LookingRole(i) ==
    /\ At(i, "looking_for_team", "role")
    /\ LET cfg == GetGlobalConfig(config_cache, g)
           fa == IF cfg # NoRow THEN cfg.free_agent_role_id ELSE 0
       IN /\ config_cache' = ConfigCacheAfterGet(config_cache, g)
          /\ \/ /\ roles' = IF fa # 0
                            THEN [roles EXCEPT ![tasks[i].caller] = @ \cup {fa}]
                            ELSE roles
                /\ Finish(i, "listed")
             \/ /\ fa # 0
                /\ UNCHANGED roles
                /\ Finish(i, "crash")
    /\ UNCHANGED <<offers, team_cache>>
    /\ UNCH_DB /\ UNCH_ENV

\* ----------------------------------------------------------- setup_global

\* Lines 541-544: the staff check; the handler then defers.
SetupGlobalStart(s, c, mgr, asst, lim) ==
    /\ IF IsStaff(c)
       THEN Start(s, [Task("setup_global", "current", c, 0, 0)
                        EXCEPT !.args.mgr = mgr, !.args.asst = asst,
                               !.args.limit = lim])
       ELSE Answer(s, "setup_global", "admin_only")
    /\ UNCHANGED <<roles, offers>>
    /\ UNCH_DB /\ UNCH_CACHE /\ UNCH_ENV

\* Lines 545-548: the window flag of the current row is kept, 1 without one.
SetupGlobalCurrent(i) ==
    /\ At(i, "setup_global", "current")
    /\ LET current == GetGlobalConfig(config_cache, g)
       IN /\ config_cache' = ConfigCacheAfterGet(config_cache, g)
          /\ Continue(i, [tasks[i] EXCEPT !.pc = "commit",
                 !.window_state = IF current # NoRow
                                  THEN current.window_open ELSE 1])
    /\ UNCHANGED <<roles, offers, team_cache>>
    /\ UNCH_DB /\ UNCH_ENV

\* Lines 551-556: the row /setup_global writes.
SetupGlobalRow(t) ==
    ConfigRow(g, t.args.mgr, t.args.asst, ChannelId, FaRole,
              t.window_state, t.args.limit)

\* Lines 550-557: INSERT OR REPLACE INTO global_config; commit.
SetupGlobalCommit(i) ==
    /\ At(i, "setup_global", "commit")
    /\ global_config' =
         InsertOrReplace(global_config, "guild_id", SetupGlobalRow(tasks[i]))
    /\ LET ts == [tasks EXCEPT ![i].pc = "invalidate"]
       IN tasks' = IF tasks[i].window_state # 0 THEN Ungate(ts) ELSE ts
    /\ reply' = NoReply
    /\ UNCHANGED <<roles, offers, cmds, teams, free_agents, player_stats>>
    /\ UNCH_CACHE /\ UNCH_ENV

\* Lines 558-559: invalidate_config, "Config Saved!".
SetupGlobalInvalidate(i) ==
    /\ At(i, "setup_global", "invalidate")
    /\ config_cache' = [config_cache EXCEPT ![g] = NoEntry]
    /\ Finish(i, "saved")
    /\ UNCHANGED <<roles, offers, team_cache>>
    /\ UNCH_DB /\ UNCH_ENV

\* --------------------------------------------------- decorate_transactions

\* The `url` argument; no image file is attached.
DecorateStart(s, c, url) ==
    /\ Start(s, [Task("decorate", "auth", c, 0, 0) EXCEPT !.args.url = url])
    /\ UNCHANGED <<roles, offers>>
    /\ UNCH_DB /\ UNCH_CACHE /\ UNCH_ENV

\* url.startswith("http")
StartsWithHttp(url) == url \in {"http://bg"}

\* Lines 618-645: the checks made before the row is updated.  g_config[1]
\* raises when the guild has no configuration row.
DecorateOutcome(t, cfg, tc) ==
    IF cfg = NoRow THEN "crash"
    ELSE IF cfg.manager_role_id \notin t.cRoles
            /\ cfg.asst_role_id \notin t.cRoles
            /\ ~IsStaff(t.caller) THEN "unauth"
    ELSE IF FindUserTeam(tc, t.cRoles) = 0 THEN "noteam"
    ELSE IF t.args.url = "reset" THEN "reset"
    ELSE IF t.args.url = "" THEN "provide"
    ELSE IF ~StartsWithHttp(t.args.url) THEN "invalid_link"
    ELSE "set"

DecorateAuth(i) ==
    /\ At(i, "decorate", "auth")
    /\ LET t == tasks[i]
           cfg == GetGlobalConfig(config_cache, g)
           out == DecorateOutcome(t, cfg, team_cache)
       IN /\ config_cache' = ConfigCacheAfterGet(config_cache, g)
          /\ team_cache' = IF out \in {"crash", "unauth"} THEN team_cache
                           ELSE TeamCacheAfterFind(team_cache, t.cRoles)
          /\ IF out \in {"reset", "set"}
             THEN Continue(i, [t EXCEPT !.pc = "commit",
                     !.team = FindUserTeam(team_cache, t.cRoles),
                     !.img = IF out = "reset" THEN "" ELSE t.args.url])
             ELSE Finish(i, out)
    /\ UNCHANGED <<roles, offers>>
    /\ UNCH_DB /\ UNCH_ENV

\* Lines 630-632, 647-649: UPDATE teams SET transaction_image; commit.
DecorateCommit(i) ==
    /\ At(i, "decorate", "commit")
    /\ teams' = {IF r.team_role_id = tasks[i].team
                 THEN [r EXCEPT !.transaction_image = tasks[i].img] ELSE r :
                   r \in teams}
    /\ Goto(i, "invalidate")
    /\ UNCHANGED <<roles, offers, global_config, free_agents, player_stats>>
    /\ UNCH_CACHE /\ UNCH_ENV

\* The last step of /decorate_transactions without invalidate_team.
DecorateKeep(i) ==
    /\ At(i, "decorate", "invalidate")
    /\ Finish(i, IF tasks[i].img = "" THEN "reverted" ELSE "background_set")
    /\ UNCHANGED <<roles, offers, config_cache, team_cache>>
    /\ UNCH_DB /\ UNCH_ENV

\* Lines 633-634, 650-656: invalidate_team, the message to the invoker.
DecorateInvalidate(i) ==
    /\ At(i, "decorate", "invalidate")
    /\ team_cache' = [team_cache EXCEPT ![tasks[i].team] = NoEntry]
    /\ Finish(i, IF tasks[i].img = "" THEN "reverted" ELSE "background_set")
    /\ UNCHANGED <<roles, offers, config_cache>>
    /\ UNCH_DB /\ UNCH_ENV

\* ------------------------------------------------------------------- time

\* time.time() advances.
Tick ==
    /\ now + TickStep <= MaxNow
    /\ now' = now + TickStep
    /\ UNCHANGED <<roles, offers, reset_views, tasks, reply, cmds,
                   last_setup, last_listing, card, shut, demanded, help_views>>
    /\ UNCH_DB /\ UNCH_CACHE

\* ------------------------------------------------- generate_transaction_card

\* discord.Colour.to_rgb() of the team colours used, and the neutral fill.
Black == <<0, 0, 0>>
Red == <<255, 0, 0>>
Neutral == <<44, 47, 51>>

\* What a remote server does with a request: it sends an image, sends bytes
\* that are no image, refuses or breaks the connection, or never answers.
Servers == {"image", "garbage", "refused", "silent"}

\* proxima_default.jpg: absent, present but no readable image, or an image.
LocalFiles == {"absent", "unreadable", "image"}

NoImg == [kind |-> "none"]

\* The renderer touches nothing but the card.
CardFrame ==
    /\ UNCHANGED <<roles, offers, tasks, reply, cmds, now, reset_views,
                   last_setup, last_listing, shut, demanded, help_views>>
    /\ UNCH_DB /\ UNCH_CACHE

\* Lines 221-231: a handler awaits the thread running _generate_card_sync.
\* url is custom_bg_url ("" for None), color the team colour; bg and av are
\* the servers behind the background and avatar URLs.
CardStart(url, color, file, bg, av) ==
    /\ card.pc \in {"idle", "done"}
    /\ card' = [pc |-> "custom", custom_bg_url |-> url, team_color |-> color,
                default_bg |-> file, bg_server |-> bg, av_server |-> av,
                img |-> NoImg, avatar |-> FALSE, out |-> "none"]
    /\ CardFrame

\* The background fetch with a refused connection raised to the caller.
CardCustomRaises ==
    /\ card.pc = "custom"
    /\ IF card.custom_bg_url = ""
       THEN card' = [card EXCEPT !.pc = "local"]
       ELSE /\ card.bg_server # "silent"
            /\ card' = IF card.bg_server = "refused"
                       THEN [card EXCEPT !.pc = "done", !.out = "raised"]
                       ELSE [card EXCEPT !.pc = "local",
                               !.img = IF card.bg_server = "image"
                                       THEN [kind |-> "custom",
                                             url |-> card.custom_bg_url]
                                       ELSE NoImg]
    /\ CardFrame

\* Lines 233-248: urlopen(custom_bg_url) is called without a timeout and
\* returns or raises only once the server has answered or failed; any
\* exception of the fetch or of the decoding leaves img None.
CardCustom ==
    /\ card.pc = "custom"
    /\ IF card.custom_bg_url = ""
       THEN card' = [card EXCEPT !.pc = "local"]
       ELSE /\ card.bg_server # "silent"
            /\ card' = [card EXCEPT !.pc = "local",
                   !.img = IF card.bg_server = "image"
                           THEN [kind |-> "custom", url |-> card.custom_bg_url]
                           ELSE NoImg]
    /\ CardFrame

\* Lines 250-256: the local default file, when there is no image yet.
CardLocal ==
    /\ card.pc = "local"
    /\ card' = [card EXCEPT !.pc = "fill",
           !.img = IF @ = NoImg /\ card.default_bg = "image"
                   THEN [kind |-> "local"] ELSE @]
    /\ CardFrame

\* The fill without the substitution for pure black.
CardFillPlain ==
    /\ card.pc = "fill"
    /\ card' = [card EXCEPT !.pc = "avatar",
           !.img = IF @ = NoImg
                   THEN [kind |-> "fill", rgb |-> card.team_color] ELSE @]
    /\ CardFrame

\* Lines 258-263: the team colour, or (44, 47, 51) for pure black.
CardFill ==
    /\ card.pc = "fill"
    /\ card' = [card EXCEPT !.pc = "avatar",
           !.img = IF @ = NoImg
                   THEN [kind |-> "fill",
                         rgb |-> IF card.team_color = Black
                                 THEN Neutral ELSE card.team_color]
                   ELSE @]
    /\ CardFrame

\* Lines 265-282: urlopen(player.display_avatar.url), again without a
\* timeout; any exception leaves the card without avatar.
CardAvatar ==
    /\ card.pc = "avatar"
    /\ card.av_server # "silent"
    /\ card' = [card EXCEPT !.pc = "text",
                            !.avatar = card.av_server = "image"]
    /\ CardFrame

\* Lines 284-298: the two text lines, the PNG, the discord.File returned.
CardSave ==
    /\ card.pc = "text"
    /\ card' = [card EXCEPT !.pc = "done", !.out = "png"]
    /\ CardFrame

\* ------------------------------------------------------------ tm_transfer

TmTransferStart(s, c, p) ==
    /\ Start(s, Task("tm_transfer", "check", c, p, 0))
    /\ UNCHANGED <<roles, offers>>
    /\ UNCH_DB /\ UNCH_CACHE /\ UNCH_ENV

\* Lines 495-515: the configuration, the caller's manager role and team,
\* the player's team role.  guild.get_role finds the manager role: no role
\* is ever deleted from the guild here.
TmTransferCheck(i) ==
    /\ At(i, "tm_transfer", "check")
    /\ LET t == tasks[i]
           cfg == GetGlobalConfig(config_cache, g)
           isMgr == cfg # NoRow /\ cfg.manager_role_id \in t.cRoles
           team == FindUserTeam(team_cache, t.cRoles)
       IN /\ config_cache' = ConfigCacheAfterGet(config_cache, g)
          /\ team_cache' = IF isMgr
                           THEN TeamCacheAfterFind(team_cache, t.cRoles)
                           ELSE team_cache
          /\ IF cfg = NoRow THEN Finish(i, "no_config")
             ELSE IF ~isMgr THEN Finish(i, "not_manager")
             ELSE IF team = 0 THEN Finish(i, "noteam")
             ELSE IF team \notin t.pRoles THEN Finish(i, "not_on_team")
             ELSE Continue(i, [t EXCEPT !.pc = "remove", !.team = team,
                                        !.args = [NoArgs EXCEPT !.role =
                                            cfg.manager_role_id]])
    /\ UNCHANGED <<roles, offers>>
    /\ UNCH_DB /\ UNCH_ENV

\* Line 518: interaction.user.remove_roles(mgr_role); an exception goes to
\* the handler at line 520.
TmTransferRemove(i) ==
    /\ At(i, "tm_transfer", "remove")
    /\ \/ /\ roles' = [roles EXCEPT ![tasks[i].caller] = @ \ {tasks[i].args.role}]
          /\ Goto(i, "add")
       \/ /\ UNCHANGED roles
          /\ Finish(i, "role_error")
    /\ UNCHANGED offers
    /\ UNCH_DB /\ UNCH_CACHE /\ UNCH_ENV

\* Lines 519-521: player.add_roles(mgr_role) and the success message, or
\* the error message.
TmTransferAdd(i) ==
    /\ At(i, "tm_transfer", "add")
    /\ \/ /\ roles' = [roles EXCEPT ![tasks[i].player] =
                          @ \cup {tasks[i].args.role}]
          /\ Finish(i, "transferred")
       \/ /\ UNCHANGED roles
          /\ Finish(i, "role_error")
    /\ UNCHANGED offers
    /\ UNCH_DB /\ UNCH_CACHE /\ UNCH_ENV

\* --------------------------------------------------------------- HelpView

\* Line 489: HelpView([embed1, embed2, embed3]).
NumPages == 3

\* update_buttons with the Next button disabled one page late.
UpdateButtonsLate(v) ==
    [v EXCEPT !.previous_disabled = (v.current_page = 0),
              !.next_disabled = (v.current_page = NumPages)]

\* Lines 400-402.
UpdateButtons(v) ==
    [v EXCEPT !.previous_disabled = (v.current_page = 0),
              !.next_disabled = (v.current_page = NumPages - 1)]

\* Lines 465-490 and 394-398: /help builds the view on page 0 and sends the
\* message with it.  Each member's first /help is followed.  shown is the
\* state of the two buttons in the message as Discord last received it: a
\* member can click a button that the message shows enabled.  Two fields
\* are history: clicks counts the clicks handled, strict tells that each of
\* them was on a button whose disabled attribute was False in the view.
HelpCommand(s, u) ==
    /\ ~help_views[u].sent
    /\ \/ /\ Answer(s, "help", "page")
          /\ LET v == UpdateButtons([sent |-> TRUE, current_page |-> 0,
                                      previous_disabled |-> FALSE,
                                      next_disabled |-> FALSE,
                                      clicks |-> 0, strict |-> TRUE])
             IN help_views' =
                  [help_views EXCEPT ![u] =
                     [sent |-> TRUE, current_page |-> v.current_page,
                      previous_disabled |-> v.previous_disabled,
                      next_disabled |-> v.next_disabled,
                      shown |-> [previous_disabled |-> v.previous_disabled,
                                 next_disabled |-> v.next_disabled],
                      clicks |-> 0, strict |-> TRUE]]
       \/ /\ Answer(s, "help", "crash")
          /\ UNCHANGED help_views
    /\ UNCHANGED <<roles, offers>>
    /\ UNCH_DB /\ UNCH_CACHE
    /\ UNCHANGED <<now, reset_views, last_setup, last_listing, card, shut,
                   demanded>>

\* Lines 404-414: a click moves current_page by d, update_buttons, then
\* edit_message(embed=self.embeds[self.current_page], view=self).  The list
\* index raises outside -NumPages .. NumPages-1 and edit_message can fail;
\* the message then keeps the buttons it showed.
HelpClick(s, u, d) ==
    LET v == help_views[u]
        w == UpdateButtons(
               [v EXCEPT !.current_page = @ + d,
                         !.clicks = @ + 1,
                         !.strict = @ /\ ~(IF d < 0 THEN v.previous_disabled
                                                    ELSE v.next_disabled)])
    IN /\ \/ /\ w.current_page \in (0 - NumPages)..(NumPages - 1)
             /\ Answer(s, IF d < 0 THEN "previous" ELSE "next", "page")
             /\ help_views' =
                  [help_views EXCEPT ![u] =
                     [w EXCEPT !.shown =
                        [previous_disabled |-> w.previous_disabled,
                         next_disabled |-> w.next_disabled]]]
          \/ /\ Answer(s, IF d < 0 THEN "previous" ELSE "next", "crash")
             /\ help_views' = [help_views EXCEPT ![u] = w]
       /\ UNCHANGED <<roles, offers>>
       /\ UNCH_DB /\ UNCH_CACHE
       /\ UNCHANGED <<now, reset_views, last_setup, last_listing, card, shut,
                      demanded>>

\* Lines 404-408: the Previous button.
HelpPrevious(s, u) ==
    /\ help_views[u].sent
    /\ ~help_views[u].shown.previous_disabled
    /\ HelpClick(s, u, 0 - 1)

\* Lines 410-414: the Next button.
HelpNext(s, u) ==
    /\ help_views[u].sent
    /\ ~help_views[u].shown.next_disabled
    /\ HelpClick(s, u, 1)

\* ------------------------------------------------------------------- Next

\* The steps of the roster handlers in flight.
RosterStep(i) ==
    \/ GateFetch(i)
    \/ SignGate(i)
    \/ SignAdd(i)
    \/ CleanupDb(i)
    \/ CleanupRole(i)
    \/ StatSelect(i)
    \/ StatInsert(i)
    \/ StatUpdate(i)
    \/ SignAnnounce(i)
    \/ ReleaseGate(i)
    \/ ReleaseRemove(i)
    \/ ReleaseAnnounce(i)
    \/ DemandTeam(i)
    \/ DemandStatSelect(i)
    \/ DemandStatInsert(i)
    \/ DemandRemove(i)
    \/ DemandFaAdd(i)
    \/ TransferGate(i)
    \/ TransferDm(i)
    \/ AcceptGate(i)
    \/ AcceptRemove(i)
    \/ AcceptAdd(i)
    \/ AcceptAnnounce(i)
    \/ AcceptFinish(i)
    \/ AcceptError(i)
    \/ DeclineFinish(i)
    \/ WindowCommit(i)
    \/ WindowInvalidate(i)
    \/ WindowAnnounce(i)

\* The roster commands and button clicks that may arrive.
RosterArrive(s) ==
    \/ \E c \in Users, p \in Users : SignStart(s, c, p)
    \/ \E c \in Users, p \in Users : ReleaseStart(s, c, p)
    \/ \E c \in Users : DemandStart(s, c)
    \/ \E c \in Users, p \in Users : TransferStart(s, c, p)
    \/ \E o \in 1..MaxOffers : AcceptStart(s, o)
    \/ \E o \in 1..MaxOffers : DeclineStart(s, o)
    \/ \E c \in {0, 1}, st \in {0, 1} : WindowStart(s, c, st)

\* The commands that delete rows: /team_delete, /reset_config and its prompt.
WipeStep(i) ==
    \/ TeamDeleteCommit(i)
    \/ TeamDeleteInvalidate(i)
    \/ ResetCommit(i)
    \/ ResetInvalidate(i)

WipeArrive(s) ==
    \/ \E c \in {0, 1}, r \in TeamRoles : TeamDeleteStart(s, c, r)
    \/ \E c \in {0, 1} : ResetStart(s, c)
    \/ ResetCancel(s)
    \/ ResetConfirmStart(s)

\* The commands that write a row under its key: /setup_team and
\* /looking_for_team.
ListStep(i) ==
    \/ SetupTeamExisting(i)
    \/ SetupTeamCommit(i)
    \/ SetupTeamInvalidate(i)
    \/ LookingCommit(i)
    \/ LookingRole(i)

ListArrive(s) ==
    \/ \E c \in {0, 1}, r \in TeamRoles, logo \in Logos, lim \in RosterLimits :
          SetupTeamStart(s, c, r, logo, lim)
    \/ \E c \in Users, rg \in Regions, ps \in Positions, ds \in Descriptions :
          LookingStart(s, c, rg, ps, ds)

\* The commands that write the configuration row or a team's image.
ConfigStep(i) ==
    \/ SetupGlobalCurrent(i)
    \/ SetupGlobalCommit(i)
    \/ SetupGlobalInvalidate(i)
    \/ DecorateAuth(i)
    \/ DecorateCommit(i)
    \/ DecorateInvalidate(i)

ConfigArrive(s) ==
    \/ \E c \in {0, 1}, sw \in BOOLEAN, lim \in DemandLimits :
          SetupGlobalStart(s, c, IF sw THEN AsstRole ELSE MgrRole,
                           IF sw THEN MgrRole ELSE AsstRole, lim)
    \/ \E c \in {0} \cup Users, url \in Urls : DecorateStart(s, c, url)

\* Up to MaxTasks roster handlers overlap, switching at their awaits.
Next ==
    \/ RosterArrive([cap |-> MaxTasks, max |-> MaxCmds])
    \/ \E i \in 1..MaxTasks : RosterStep(i)

Spec == Init /\ [][Next]_vars

\* Handlers run one at a time, each to completion: the roster commands and
\* the commands that delete rows.
NextSeq ==
    \/ RosterArrive([cap |-> 1, max |-> MaxCmdsSeq])
    \/ WipeArrive([cap |-> 1, max |-> MaxCmdsSeq])
    \/ \E i \in 1..MaxTasks : RosterStep(i) \/ WipeStep(i)

SpecSeq == Init /\ [][NextSeq]_vars

\* One at a time: the commands that write and delete table rows.
NextAdmin ==
    \/ ListArrive([cap |-> 1, max |-> MaxCmdsAdmin])
    \/ WipeArrive([cap |-> 1, max |-> MaxCmdsAdmin])
    \/ \E i \in 1..MaxTasks : ListStep(i) \/ WipeStep(i)

SpecAdmin == Init /\ [][NextAdmin]_vars

\* One at a time, with time passing: every command that writes the
\* configuration row or a team row, and the commands that read them.
NextCache ==
    \/ ConfigArrive([cap |-> 1, max |-> MaxCmdsCache])
    \/ WipeArrive([cap |-> 1, max |-> MaxCmdsCache])
    \/ \E c \in {0, 1}, r \in TeamRoles, logo \in Logos, lim \in RosterLimits :
          SetupTeamStart([cap |-> 1, max |-> MaxCmdsCache], c, r, logo, lim)
    \/ \E c \in {0, 1}, st \in {0, 1} :
          WindowStart([cap |-> 1, max |-> MaxCmdsCache], c, st)
    \/ \E c \in Users : DemandStart([cap |-> 1, max |-> MaxCmdsCache], c)
    \/ \E i \in 1..MaxTasks :
          \/ ConfigStep(i)
          \/ WipeStep(i)
          \/ SetupTeamExisting(i)
          \/ SetupTeamCommit(i)
          \/ SetupTeamInvalidate(i)
          \/ WindowCommit(i)
          \/ WindowInvalidate(i)
          \/ WindowAnnounce(i)
          \/ DemandTeam(i)
          \/ DemandStatSelect(i)
          \/ DemandStatInsert(i)
          \/ DemandRemove(i)
          \/ StatSelect(i)
          \/ StatUpdate(i)
          \/ DemandFaAdd(i)
    \/ Tick

SpecCache == Init /\ [][NextCache]_vars

\* The card renderer alone: the thread runs whenever it is not blocked.
CardStep ==
    \/ CardCustom
    \/ CardLocal
    \/ CardFill
    \/ CardAvatar
    \/ CardSave

NextCard ==
    \/ \E url \in {"", "http://bg"}, color \in {Black, Red},
          file \in LocalFiles, bg \in Servers, av \in Servers :
          CardStart(url, color, file, bg, av)
    \/ CardStep

SpecCard == Init /\ [][NextCard]_vars /\ WF_vars(CardStep)

\* /demand alone, one at a time, in both guilds.
NextGuilds ==
    \/ \E c \in Users \cup {Visitor} :
          DemandStart([cap |-> 1, max |-> MaxCmdsGuilds], c)
    \/ \E i \in 1..MaxTasks :
          \/ DemandTeam(i)
          \/ DemandStatSelect(i)
          \/ DemandStatInsert(i)
          \/ DemandRemove(i)
          \/ StatSelect(i)
          \/ StatUpdate(i)
          \/ DemandFaAdd(i)

SpecGuilds == Init /\ [][NextGuilds]_vars

\* The commands that rewrite the configuration row or a team row,
\* overlapping.
NextStaff ==
    \/ \E c \in {0, 1}, r \in TeamRoles, logo \in Logos, lim \in RosterLimits :
          SetupTeamStart([cap |-> MaxTasks, max |-> MaxCmdsStaff],
                         c, r, logo, lim)
    \/ \E c \in {0} \cup Users, url \in Urls :
          DecorateStart([cap |-> MaxTasks, max |-> MaxCmdsStaff], c, url)
    \/ \E c \in {0, 1}, sw \in BOOLEAN, lim \in DemandLimits :
          SetupGlobalStart([cap |-> MaxTasks, max |-> MaxCmdsStaff], c,
                           IF sw THEN AsstRole ELSE MgrRole,
                           IF sw THEN MgrRole ELSE AsstRole, lim)
    \/ \E c \in {0, 1}, st \in {0, 1} :
          WindowStart([cap |-> MaxTasks, max |-> MaxCmdsStaff], c, st)
    \/ \E i \in 1..MaxTasks :
          \/ SetupGlobalCurrent(i)
          \/ SetupGlobalCommit(i)
          \/ SetupGlobalInvalidate(i)
          \/ WindowCommit(i)
          \/ WindowInvalidate(i)
          \/ WindowAnnounce(i)
          \/ SetupTeamExisting(i)
          \/ SetupTeamCommit(i)
          \/ SetupTeamInvalidate(i)
          \/ DecorateAuth(i)
          \/ DecorateCommit(i)
          \/ DecorateInvalidate(i)

SpecStaff == Init /\ [][NextStaff]_vars


\* One at a time: /demand, /sign and /tm_transfer, by which a manager gains
\* a team mate and hands the manager role over.
NextOwner ==
    \/ \E c \in Users : DemandStart([cap |-> 1, max |-> MaxCmdsOwner], c)
    \/ \E c \in Users, p \in Users :
          SignStart([cap |-> 1, max |-> MaxCmdsOwner], c, p)
    \/ \E c \in Users, p \in Users :
          TmTransferStart([cap |-> 1, max |-> MaxCmdsOwner], c, p)
    \/ \E i \in 1..MaxTasks :
          \/ DemandTeam(i)
          \/ DemandStatSelect(i)
          \/ DemandStatInsert(i)
          \/ DemandRemove(i)
          \/ DemandFaAdd(i)
          \/ GateFetch(i)
          \/ SignGate(i)
          \/ SignAdd(i)
          \/ CleanupDb(i)
          \/ CleanupRole(i)
          \/ StatSelect(i)
          \/ StatUpdate(i)
          \/ SignAnnounce(i)
          \/ TmTransferCheck(i)
          \/ TmTransferRemove(i)
          \/ TmTransferAdd(i)

SpecOwner == Init /\ [][NextOwner]_vars

\* /help and the clicks on its two buttons.
NextHelp ==
    \/ \E u \in Users : HelpCommand([cap |-> 1, max |-> MaxCmdsHelp], u)
    \/ \E u \in Users : HelpPrevious([cap |-> 1, max |-> MaxCmdsHelp], u)
    \/ \E u \in Users : HelpNext([cap |-> 1, max |-> MaxCmdsHelp], u)

SpecHelp == Init /\ [][NextHelp]_vars
\* ----------------------------------------------------------------- claims

\* The registered team roles a member holds.
TeamsHeld(u) == {r \in roles[u] \cap TeamRoles : TeamOf(r) # NoRow}

\* C1: every member holds at most one registered team role, whatever
\* sequence of /sign, /release, /demand, /transfer and Accept has run.
C1_AtMostOneTeam == \A u \in Users : Cardinality(TeamsHeld(u)) <= 1

\* C2: no member's stored demand count exceeds the guild's demand limit,
\* under any interleaving of /demand invocations with the limit held fixed.
C2_DemandsWithinLimit ==
    \A r \in player_stats : r.demands <= DemandLimitOf(ConfigOf(g))

\* C3: an invocation of /sign, /release, /transfer or Accept that arrived
\* while the guild's row had window_open = 0, the flag being 0 ever since,
\* does not get past the window check.
C3_ClosedWindowRefuses ==
    \A i \in 1..MaxTasks :
        (tasks[i].op \in GateOps /\ tasks[i].gated) => tasks[i].pc = "gate"

\* C4: for every offer, the destination role is added at most once and the
\* player's transfer counter is incremented at most once, however the clicks
\* on its buttons interleave.
C4_ResolvedOnce ==
    \A o \in 1..Len(offers) : offers[o].adds <= 1 /\ offers[o].bumps <= 1

\* C5: an Accept that ends with "Transfer Approved." leaves the player
\* without the source team role and with the destination team role, the
\* player's transfer counter exactly one above its value when the button
\* was clicked, the notice posted when the guild has a channel configured,
\* and the offer's buttons disabled.
C5_AcceptPost ==
    [][\A i \in 1..MaxTasks :
         (At(i, "accept", "finish") /\ tasks'[i] = Idle
            /\ reply'.kind = "approved")
         => LET t == tasks[i]
                o == offers'[t.offer]
                row == Select(player_stats', "user_id", t.player)
            IN /\ o.from_team \notin roles'[t.player]
               /\ o.to_team \in roles'[t.player]
               /\ row # NoRow /\ row.transfers = t.before + 1
               /\ ChannelOf(ConfigOf(g)) # 0 => o.posted >= 1
               /\ o.disabled]_vars

C5_Approved ==
    /\ reply = [op |-> "accept", kind |-> "approved"]
    /\ \E o \in 1..Len(offers) :
          /\ offers[o].disabled /\ offers[o].bumps = 1 /\ offers[o].posted = 1
          /\ offers[o].to_team \in roles[offers[o].player]
          /\ offers[o].from_team \notin roles[offers[o].player]
          /\ StatsOf(offers[o].player).transfers = 1

C7_Heads(T) ==
    {m \in Users : T \in roles[m]
                   /\ ConfigOf(g).manager_role_id \in roles[m]}
C7_Assts(T) ==
    {m \in Users : T \in roles[m] /\ ConfigOf(g).asst_role_id \in roles[m]}

\* C7: whenever /transfer delivers an offer, its recipient is on the
\* targeted player's team and holds the manager role if any member of that
\* team does, the assistant role otherwise; a team with neither gets no
\* offer.
C7_OfferRecipient ==
    [][Len(offers') > Len(offers)
         => LET o == offers'[Len(offers')]
            IN /\ ConfigOf(g) # NoRow
               /\ o.from_team \in roles[o.player]
               /\ IF C7_Heads(o.from_team) # {}
                  THEN o.rcpt \in C7_Heads(o.from_team)
                  ELSE o.rcpt \in C7_Assts(o.from_team)]_vars

C7_HeadPreferred ==
    /\ reply = [op |-> "transfer", kind |-> "offer_sent"]
    /\ LET o == offers[Len(offers)]
       IN /\ o.rcpt \in C7_Heads(o.from_team)
          /\ C7_Assts(o.from_team) \ C7_Heads(o.from_team) # {}

\* C8: every team role registered by /setup_team has exactly one teams
\* row, an unregistered one has none, and the row holds the logo and the
\* roster limit of the most recent /setup_team for that role.
C8_OneRowPerTeam ==
    \A r \in TeamRoles :
        LET rows == {x \in teams : x.team_role_id = r}
        IN IF last_setup[r] = NoRow THEN rows = {}
           ELSE /\ Cardinality(rows) = 1
                /\ \A x \in rows :
                      /\ x.logo = last_setup[r].logo
                      /\ x.roster_limit = last_setup[r].roster_limit

C8_Reregistered ==
    /\ reply = [op |-> "setup_team", kind |-> "registered"]
    /\ \E r \in TeamRoles :
          /\ TeamOf(r) # NoRow
          /\ TeamOf(r).logo = "logoB"
          /\ TeamOf(r).roster_limit = InitRosterLimit + 1

\* C9: a user has at most one free-agent listing, and it holds the region,
\* position and description of the user's most recent /looking_for_team.
C9_OneListing ==
    \A u \in Users :
        LET rows == {x \in free_agents : x.user_id = u}
        IN /\ Cardinality(rows) <= 1
           /\ \A x \in rows :
                 /\ last_listing[u] # NoRow
                 /\ x.region = last_listing[u].region
                 /\ x.position = last_listing[u].position
                 /\ x.description = last_listing[u].description

C9_Resubmitted ==
    /\ reply = [op |-> "looking_for_team", kind |-> "listed"]
    /\ \E u \in Users :
          /\ last_listing[u] # NoRow /\ last_listing[u].count >= 2
          /\ AgentOf(u) # NoRow
          /\ AgentOf(u).region = "EU" /\ AgentOf(u).position = "GK"
          /\ AgentOf(u).description = "d2"

\* C10: no step lowers a transfer or demand count or removes a stats row,
\* /release, /team_delete and a confirmed /reset_config included; a row that
\* appears starts with both counts 0.
C10_CountersMonotone ==
    [][\A u \in Users :
         LET a == StatsOf(u)
             b == Select(player_stats', "user_id", u)
         IN /\ a # NoRow => /\ b # NoRow
                            /\ b.transfers >= a.transfers
                            /\ b.demands >= a.demands
            /\ (a = NoRow /\ b # NoRow) => (b.transfers = 0 /\ b.demands = 0)
      ]_vars

C10_WipedWithCounts ==
    /\ reply = [op |-> "reset_confirm", kind |-> "wiped"]
    /\ ConfigOf(g) = NoRow
    /\ \E r \in player_stats : r.demands >= 1 \/ r.transfers >= 1


C12_Young(e) == e.present /\ now - e.timestamp < 60

C12_FreshReads ==
    [][/\ \A gid \in Guilds :
            config_cache'[gid] # config_cache[gid] =>
              \/ config_cache'[gid] = NoEntry
              \/ /\ ~C12_Young(config_cache[gid])
                 /\ config_cache'[gid] = Entry(ConfigOf(gid), now)
       /\ \A r \in TeamRoles :
            team_cache'[r] # team_cache[r] =>
              \/ team_cache'[r] = NoEntry
              \/ /\ ~C12_Young(team_cache[r])
                 /\ team_cache'[r] = Entry(TeamOf(r), now)
       /\ \A i \in 1..MaxTasks :
            SetupGlobalCurrent(i) =>
              IF C12_Young(config_cache[g])
              THEN config_cache'[g] = config_cache[g]
              ELSE /\ config_cache'[g] = Entry(ConfigOf(g), now)
                   /\ tasks'[i].window_state =
                        IF ConfigOf(g) = NoRow THEN 1
                        ELSE ConfigOf(g).window_open]_vars

\* /setup_global has read the configuration 60 seconds or more after the
\* bot started, as the second command, and the entry carries that time.
C12_Reloaded ==
    /\ cmds = 2
    /\ now >= CACHE_TTL
    /\ config_cache[g].present
    /\ config_cache[g].timestamp = now
    /\ \E i \in 1..MaxTasks :
         tasks[i] # Idle /\ tasks[i].op = "setup_global"
                         /\ tasks[i].pc = "commit"

\* C13: every invocation ends with a message to the invoker, a success or
\* a short error string: no handler ends on an exception that left the
\* invoker without any message.
C13_AlwaysReplies == reply.kind # "crash"

\* C14: a render that finishes returns a PNG whatever the two servers did:
\* a background fetch that failed (connection refused, or bytes that are no
\* image) leaves the card on the local file or the fill, a failed avatar
\* fetch leaves the card without avatar and nothing else, and no failure
\* reaches the caller.
C14_FailuresSwallowed ==
    card.pc = "done" =>
      /\ card.out = "png"
      /\ (card.custom_bg_url # "" /\ card.bg_server \in {"garbage", "refused"})
           => card.img.kind \in {"local", "fill"}
      /\ card.avatar <=> card.av_server = "image"

\* A render finished although the background server refused the connection
\* and the avatar server sent no image.
C14_BothFailed ==
    /\ card.pc = "done"
    /\ card.out = "png"
    /\ card.custom_bg_url # ""
    /\ card.bg_server = "refused"
    /\ card.av_server = "garbage"

\* C15: the background is the custom one when a URL is given and its image
\* is fetched and decoded; otherwise the local default file when it exists
\* and opens; otherwise a fill of the team colour, (44, 47, 51) standing in
\* for pure black (0, 0, 0).
C15_BackgroundOrder ==
    card.pc \in {"avatar", "text", "done"} =>
      card.img =
        IF card.custom_bg_url # "" /\ card.bg_server = "image"
        THEN [kind |-> "custom", url |-> card.custom_bg_url]
        ELSE IF card.default_bg = "image" THEN [kind |-> "local"]
        ELSE IF card.team_color = <<0, 0, 0>>
        THEN [kind |-> "fill", rgb |-> <<44, 47, 51>>]
        ELSE [kind |-> "fill", rgb |-> card.team_color]

\* A black team's card fell through an undecodable custom background and an
\* unreadable local file to the neutral fill.
C15_BlackFallsToNeutral ==
    /\ card.pc = "done"
    /\ card.custom_bg_url # ""
    /\ card.bg_server = "garbage"
    /\ card.default_bg = "unreadable"
    /\ card.team_color = <<0, 0, 0>>
    /\ card.img = [kind |-> "fill", rgb |-> <<44, 47, 51>>]

\* C16: each fetch is bounded by a timeout, so a render that has started
\* finishes even when a server never answers.
C16_RenderTerminates == (card.pc = "custom") ~> (card.pc = "done")

\* C17: a confirmed /reset_config deletes the configuration row of the
\* guild it was invoked in and nothing else: while the Confirm click is
\* handled, the teams, player_stats and free_agents rows, the roles, the
\* team cache and every other guild's row and cache entry stay as they are,
\* and when it ends the guild has neither row nor cache entry.  A Cancel
\* click changes no row, no cache entry and no role.
C17_Confirming ==
    \E i \in 1..MaxTasks :
       \/ tasks[i] # Idle /\ tasks[i].op = "reset_confirm"
       \/ tasks'[i] # Idle /\ tasks'[i].op = "reset_confirm"

C18_ShutRefuses ==
    [][\A i \in 1..MaxTasks :
         (/\ shut
          /\ tasks[i] # Idle
          /\ tasks[i].op \in {"sign", "release", "transfer", "accept"})
         => roles' = roles /\ Len(offers') = Len(offers)]_vars

\* C19: a /sign, /release or /transfer handler changes a member's roles or
\* delivers an offer only when its caller holds the manager role or the
\* assistant role of the guild's configuration row.
C19_ManagersOnly ==
    [][\A i \in 1..MaxTasks :
         (/\ tasks[i] # Idle
          /\ tasks[i].op \in {"sign", "release", "transfer"}
          /\ roles' # roles \/ Len(offers') > Len(offers))
         => /\ ConfigOf(g) # NoRow
            /\ \/ ConfigOf(g).manager_role_id \in tasks[i].cRoles
               \/ ConfigOf(g).asst_role_id \in tasks[i].cRoles]_vars

\* C20: the demand limit is applied per guild: a /demand is refused for the
\* limit only when its caller has made, in the guild it is invoked in, at
\* least as many demands as that guild's limit.
C20_LimitPerGuild ==
    [][\A i \in 1..MaxTasks :
         (/\ tasks[i] # Idle
          /\ tasks[i].op = "demand"
          /\ tasks'[i] = Idle
          /\ reply'.kind = "limit_reached")
         => demanded[tasks[i].caller] >= tasks[i].limit]_vars

\* C21: when a cache-miss read of a key has overlapped a command that
\* commits a write to the key's row and invalidates its entry, then, once
\* every handler has finished, the cache holds no entry for the key that
\* differs from the database row.
C21_NoStaleEntry ==
    InFlight = 0 =>
      /\ \A gid \in Guilds :
           config_cache[gid].present =>
             config_cache[gid].data = ConfigOf(gid)
      /\ \A r \in DOMAIN team_cache :
           team_cache[r].present => team_cache[r].data = TeamOf(r)

\* C22: overlapping first accesses to the stats of a user who has no row
\* all complete without error: no handler that found no row and goes on to
\* insert it ends on an exception or in its error branch.
C22_FirstAccessSucceeds ==
    [][\A i \in 1..MaxTasks :
         (/\ tasks[i] # Idle
          /\ tasks[i].pc \in {"stat_ins", "dstat_ins"}
          /\ tasks'[i] # tasks[i])
         => /\ reply'.kind # "crash"
            /\ tasks'[i] # Idle => tasks'[i].pc # "error"]_vars

\* C23: an Accept adds the destination role or increments the transfer
\* counter only for a player who held the offer's source team role when
\* the click was received.
C23_StillOnSourceTeam ==
    [][\A i \in 1..MaxTasks :
         (/\ tasks[i] # Idle
          /\ tasks[i].op = "accept"
          /\ \/ offers'[tasks[i].offer].adds > offers[tasks[i].offer].adds
             \/ offers'[tasks[i].offer].bumps > offers[tasks[i].offer].bumps)
         => offers[tasks[i].offer].from_team \in tasks[i].pRoles]_vars

\* C24: Accept's role move is all-or-nothing: when the handler of an Accept
\* ends, a player who held the source team role when it began holds the
\* source or the destination team role, and the offer has incremented the
\* transfer counter only if it added the destination role.
C24_AllOrNothing ==
    [][\A i \in 1..MaxTasks :
         (/\ tasks[i] # Idle
          /\ tasks[i].op = "accept"
          /\ tasks'[i] = Idle
          /\ offers[tasks[i].offer].from_team \in tasks[i].pRoles)
         => LET o == offers'[tasks[i].offer]
            IN /\ \/ o.from_team \in roles'[o.player]
                  \/ o.to_team \in roles'[o.player]
               /\ o.bumps > 0 => o.adds > 0]_vars

\* C25: no registered team has more members than its roster limit.
C25_WithinRosterLimit ==
    \A r \in TeamRoles :
       TeamOf(r) # NoRow => Cardinality(Members(r)) <= TeamOf(r).roster_limit

\* C26: a successful /demand has removed the caller's team role; its
\* counter update adds exactly 1 to the caller's demand counter, leaves the
\* transfer counter alone, and the demands-remaining figure the handler
\* reports, the limit minus one more than the count it read, equals the
\* limit minus the count just stored and is not negative.
C26_DemandAccounting ==
    [][\A i \in 1..MaxTasks :
         (tasks[i] # Idle /\ tasks[i].op = "demand") =>
           LET t == tasks[i]
               uid == UserId(t.caller)
               row == Select(player_stats, "user_id", uid)
               new == Select(player_stats', "user_id", uid)
               left == t.limit - (t.used + 1)
           IN /\ (t.pc = "stat_upd" /\ tasks'[i] # Idle
                    /\ tasks'[i].pc = "fa_add") =>
                   /\ new.demands = row.demands + 1
                   /\ new.transfers = row.transfers
                   /\ left = t.limit - new.demands
                   /\ left >= 0
              /\ (tasks'[i] = Idle /\ reply'.kind = "left") =>
                   t.team \notin roles'[t.caller]]_vars

\* C27: a /setup_global for a guild that has a configuration row leaves the
\* row's window flag as it is, whatever /window does meanwhile; only for a
\* guild without a row does it write the flag as open.
C27_SetupKeepsWindow ==
    [][\A i \in 1..MaxTasks :
         (/\ tasks[i] # Idle
          /\ tasks[i].op = "setup_global"
          /\ tasks[i].pc = "commit"
          /\ tasks'[i] # Idle
          /\ tasks'[i].pc = "invalidate") =>
           LET new == Select(global_config', "guild_id", g)
           IN new.window_open =
                IF ConfigOf(g) # NoRow THEN ConfigOf(g).window_open ELSE 1]_vars

\* C28: a /setup_team for a role that has a teams row writes the new logo
\* and roster limit and keeps the row's custom card background.
C28_SetupTeamKeepsImage ==
    [][\A i \in 1..MaxTasks :
         (/\ tasks[i] # Idle
          /\ tasks[i].op = "setup_team"
          /\ tasks[i].pc = "commit"
          /\ tasks'[i] # Idle
          /\ tasks'[i].pc = "invalidate"
          /\ TeamOf(tasks[i].args.role) # NoRow) =>
           LET old == TeamOf(tasks[i].args.role)
               new == Select(teams', "team_role_id", tasks[i].args.role)
           IN /\ new.transaction_image = old.transaction_image
              /\ new.logo = tasks[i].args.logo
              /\ new.roster_limit = tasks[i].args.limit]_vars

\* C29: when a /sign ends with "Player Signed!" or an Accept with the
\* transfer approved, the player has no free_agents row and does not hold
\* the free-agent role of the guild's configuration.
C29_NoLongerFreeAgent ==
    [][\A i \in 1..MaxTasks :
         (/\ tasks[i] # Idle
          /\ tasks[i].op \in {"sign", "accept"}
          /\ tasks'[i] = Idle
          /\ reply'.kind \in {"signed", "approved"}) =>
           /\ Select(free_agents', "user_id", tasks[i].player) = NoRow
           /\ ConfigOf(g) # NoRow =>
                ConfigOf(g).free_agent_role_id \notin roles'[tasks[i].player]]_vars

\* C30: /tm_transfer changes roles only when the caller held the manager
\* role and the player held the caller's team role, and whenever it ends
\* after passing its checks the caller or the player holds the manager
\* role, the player on success.
C30_NeverWithoutManager ==
    [][\A i \in 1..MaxTasks :
          (tasks[i].op = "tm_transfer" /\ tasks'[i] # tasks[i]) =>
             /\ roles' # roles =>
                   /\ MgrRole \in tasks[i].cRoles
                   /\ FindUserTeam(team_cache, tasks[i].cRoles)
                         \in tasks[i].pRoles
             /\ (tasks'[i].op = "idle"
                 /\ reply'.kind \in {"transferred", "role_error"}) =>
                   \/ MgrRole \in roles'[tasks[i].caller]
                   \/ MgrRole \in roles'[tasks[i].player]
             /\ (tasks'[i].op = "idle" /\ reply'.kind = "transferred") =>
                   MgrRole \in roles'[tasks[i].player]]_vars

\* C31: in a help view all of whose clicks were on buttons that were not
\* disabled, current_page is within 0 .. len(embeds)-1, Previous is disabled
\* exactly on page 0 and Next exactly on the last page.
C31_PagesInRange ==
    \A u \in Users :
       (help_views[u].sent /\ help_views[u].strict) =>
          /\ help_views[u].current_page \in 0..(NumPages - 1)
          /\ help_views[u].previous_disabled
                <=> help_views[u].current_page = 0
          /\ help_views[u].next_disabled
                <=> help_views[u].current_page = NumPages - 1

C31_Witness ==
    \E u \in Users :
       /\ help_views[u].sent /\ help_views[u].strict
       /\ help_views[u].clicks >= 3
       /\ help_views[u].current_page = NumPages - 1
       /\ help_views[u].next_disabled
=============================================================================
